---- MODULE Spec2Model ----
(***************************************************************************)
(* A model of the retrieval-and-verification pipeline of the repository:   *)
(* the five language-model agents (query_refinement_agent.py,              *)
(* entity_extraction_agent.py, relevance_agent.py, output_style_agent.py,  *)
(* fact_verification_agent.py), the search client and the orchestrator     *)
(* main() of step-03-view-agent.py.                                        *)
(*                                                                         *)
(* Every component has one variable holding the state of one call of it,   *)
(* and one specification that draws the call's inputs in its initial       *)
(* states and then runs the call.  Spec is the orchestrator's.  A remote   *)
(* call is an input of the step that issues it: it either raises or        *)
(* returns a text.  Texts are sequences of characters or of tokens, and    *)
(* every parser is written as the code computes it.                        *)
(***************************************************************************)
EXTENDS Integers, Sequences, FiniteSets, TLC

VARIABLES refiner, entity, search, relevance, style, verifier, orch

vars == <<refiner, entity, search, relevance, style, verifier, orch>>

\* A component that is not the subject of the running specification.
Idle == [pc |-> "idle"]

(***************************************************************************)
(* Python values and control flow.                                         *)
(***************************************************************************)

\* A call that returned v / a call that an exception left.
Return(v) == [raised |-> FALSE, value |-> v]
Raise == [raised |-> TRUE, value |-> "exception"]

\* A remote call: it raised, or it returned the text content.
CallFailed == [ok |-> FALSE, content |-> <<>>]
CallOk(text) == [ok |-> TRUE, content |-> text]

Min(a, b) == IF a <= b THEN a ELSE b

\* s[:n]
Take(s, n) == SubSeq(s, 1, Min(n, Len(s)))

\* All sequences over S of length at most n.
SeqsUpTo(S, n) == UNION {[1..k -> S] : k \in 0..n}

\* str.strip() on a sequence of characters, " " being the whitespace.
RECURSIVE lstrip(_)
lstrip(s) == IF s # <<>> /\ Head(s) = " " THEN lstrip(Tail(s)) ELSE s

RECURSIVE rstrip(_)
rstrip(s) ==
    IF s # <<>> /\ s[Len(s)] = " " THEN rstrip(SubSeq(s, 1, Len(s) - 1)) ELSE s

strip(s) == rstrip(lstrip(s))

(***************************************************************************)
(* Query Refiner: QueryRefinementAgent.generate_refined_query              *)
(***************************************************************************)

MaxQueryLen == 2
Chars == {"a", " "}
Queries == SeqsUpTo(Chars, MaxQueryLen)
\* Completions long enough to exceed three times the longest query.
RefinerOutcomes ==
    {CallFailed} \cup {CallOk(t) : t \in SeqsUpTo(Chars, 3 * MaxQueryLen + 1)}

\* The length guard without the strip() of the completion.
generate_refined_query_nostrip(original_query, outcome) ==
    IF ~outcome.ok
    THEN Return(original_query)
    ELSE IF Len(strip(outcome.content)) > Len(original_query) * 3
         THEN Return(original_query)
         ELSE Return(outcome.content)

\* The guard taken for strictly more than four times the query's length.
generate_refined_query_factor(original_query, outcome) ==
    IF ~outcome.ok
    THEN Return(original_query)
    ELSE LET refined_query == strip(outcome.content)
         IN  IF Len(refined_query) > Len(original_query) * 4
             THEN Return(original_query)
             ELSE Return(refined_query)

generate_refined_query(original_query, outcome) ==
    IF ~outcome.ok
    THEN Return(original_query)
    ELSE LET refined_query == strip(outcome.content)
         IN  IF Len(refined_query) > Len(original_query) * 3
             THEN Return(original_query)
             ELSE Return(refined_query)

InitRefiner ==
    /\ refiner \in {[pc |-> "ready", original_query |-> q,
                     outcome |-> CallFailed, result |-> Return(<<>>)] : q \in Queries}
    /\ entity = Idle /\ search = Idle /\ relevance = Idle
    /\ style = Idle /\ verifier = Idle /\ orch = Idle

Refine ==
    /\ refiner.pc = "ready"
    /\ \E outcome \in RefinerOutcomes :
          refiner' = [refiner EXCEPT
                         !.pc = "returned",
                         !.outcome = outcome,
                         !.result = generate_refined_query(refiner.original_query, outcome)]
    /\ UNCHANGED <<entity, search, relevance, style, verifier, orch>>

NextRefiner == Refine

SpecRefiner == InitRefiner /\ [][NextRefiner]_vars

\* C4: the value generate_refined_query returns is never longer than three
\* times the raw query, for every raw query (the empty one too) and every
\* outcome of the model call.
RefinedLengthBounded ==
    refiner.pc = "returned" =>
        /\ ~refiner.result.raised
        /\ Len(refiner.result.value) <= 3 * Len(refiner.original_query)

\* A completion longer than three times the query was returned by the model
\* and the raw query came back.
RefinedLengthWitness ==
    /\ refiner.pc = "returned"
    /\ refiner.outcome.ok
    /\ Len(strip(refiner.outcome.content)) > 3 * Len(refiner.original_query)
    /\ refiner.result.value = refiner.original_query

\* C5: generate_refined_query returns the raw query when the call fails or
\* the stripped completion is longer than three times the raw query, the
\* stripped completion in every other case, and never raises.
RefinedResult ==
    refiner.pc = "returned" =>
        /\ ~refiner.result.raised
        /\ refiner.result.value =
              IF \/ ~refiner.outcome.ok
                 \/ Len(strip(refiner.outcome.content)) > 3 * Len(refiner.original_query)
              THEN refiner.original_query
              ELSE strip(refiner.outcome.content)

\* A completion with surrounding whitespace whose stripped length is exactly
\* three times the query's was accepted.
RefinedResultWitness ==
    /\ refiner.pc = "returned"
    /\ refiner.outcome.ok
    /\ refiner.outcome.content # strip(refiner.outcome.content)
    /\ refiner.original_query # <<>>
    /\ Len(strip(refiner.outcome.content)) = 3 * Len(refiner.original_query)
    /\ refiner.result.value = strip(refiner.outcome.content)
    /\ refiner.result.value # refiner.original_query

(***************************************************************************)
(* Entity Extractor: EntityExtractionAgent.extract_entities, process_query *)
(***************************************************************************)

\* JSON values.  A string has str, an array has items, an object has keys
\* and, at the same positions, items (a Python dict keeps insertion order).
JStr(s) == [type |-> "string", str |-> s, keys |-> <<>>, items |-> <<>>]
JNull == [type |-> "null", str |-> "", keys |-> <<>>, items |-> <<>>]
JArr(xs) == [type |-> "array", str |-> "", keys |-> <<>>, items |-> xs]
JObj(ks, xs) == [type |-> "object", str |-> "", keys |-> ks, items |-> xs]

\* The empty EntitySet {}.
EmptyEntitySet == JObj(<<>>, <<>>)

\* The fixed enumeration of entity types (self.entity_types).
EntityTypes ==
    {"PERSON", "LOCATION", "ORGANIZATION", "EVENT", "DATE", "FACILITY",
     "PRODUCT", "WORK_OF_ART"}

\* Keys and surface strings a completion may carry.
ModelKeys == {"PERSON", "LOCATION", "COLOR"}
Names == {"Kandy", "kandy"}
LowerOf == [s \in Names \cup {"K", "a", "n", "d", "y", "k"} |->
              CASE s = "Kandy" -> "kandy"
                [] s = "K" -> "k"
                [] OTHER -> s]
\* The characters of a surface string (what iterating a str yields).
CharsOf == [s \in Names |->
              IF s = "Kandy" THEN <<"K", "a", "n", "d", "y">>
              ELSE <<"k", "a", "n", "d", "y">>]

NameLists ==
    {<<>>} \cup {<<JStr(a)>> : a \in Names}
           \cup {<<JStr(a), JStr(b)>> : a \in Names, b \in Names}
EntityValues == {JArr(xs) : xs \in NameLists} \cup {JStr("Kandy"), JNull}
\* What a completion may encode: objects of at most two keys, and an array.
EntityJsonValues ==
    {EmptyEntitySet, JArr(<<>>)}
    \cup {JObj(<<k>>, <<v>>) : k \in ModelKeys, v \in EntityValues}
    \cup {JObj(<<k1, k2>>, <<v1, v2>>) :
             k1 \in {"PERSON"}, k2 \in {"LOCATION", "COLOR"},
             v1 \in EntityValues, v2 \in EntityValues}

\* The text of a JSON value, as a sequence of tokens.
RECURSIVE json_dumps(_)
RECURSIVE json_dumps_items(_, _, _)
json_dumps_items(ks, xs, i) ==
    IF i > Len(xs) THEN <<>>
    ELSE (IF i > 1 THEN <<",">> ELSE <<>>)
         \o (IF ks # <<>> THEN <<"\"", ks[i], "\"", ":">> ELSE <<>>)
         \o json_dumps(xs[i])
         \o json_dumps_items(ks, xs, i + 1)
json_dumps(v) ==
    CASE v.type = "string" -> <<"\"", v.str, "\"">>
      [] v.type = "null" -> <<"null">>
      [] v.type = "array" -> <<"[">> \o json_dumps_items(<<>>, v.items, 1) \o <<"]">>
      [] v.type = "object" -> <<"{">> \o json_dumps_items(v.keys, v.items, 1) \o <<"}">>

\* json.loads: the value the text encodes; it raises on any other text.
JsonEncodings == {<<json_dumps(v), v>> : v \in EntityJsonValues}
json_loads(text) ==
    IF \E e \in JsonEncodings : e[1] = text
    THEN Return((CHOOSE e \in JsonEncodings : e[1] = text)[2])
    ELSE Raise

\* Completions: an encoded value, bare or inside whitespace, a completion
\* cut short by max_tokens, and prose.
EntityTexts ==
    LET whole == {json_dumps(v) : v \in EntityJsonValues}
    IN  whole
        \cup {<<" ">> \o t \o <<" ">> : t \in whole}
        \cup UNION {{SubSeq(t, 1, n) : n \in 1..(Len(t) - 1)} : t \in whole}
        \cup {<<"Sorry">>}
EntityOutcomes == {CallFailed} \cup {CallOk(t) : t \in EntityTexts}

EntityQueries == {<<>>, <<"a">>, <<"a", " ">>}

\* extract_entities without its try/except.
extract_entities_unguarded(query, outcome) ==
    IF ~outcome.ok THEN Raise ELSE json_loads(strip(outcome.content))

extract_entities(query, outcome) ==
    IF ~outcome.ok
    THEN Return(EmptyEntitySet)
    ELSE LET entities == json_loads(strip(outcome.content))
         IN  IF entities.raised THEN Return(EmptyEntitySet) ELSE entities

InitEntity ==
    /\ entity \in {[pc |-> "ready", query |-> q, outcome |-> CallFailed,
                    result |-> Return(EmptyEntitySet)] : q \in EntityQueries}
    /\ refiner = Idle /\ search = Idle /\ relevance = Idle
    /\ style = Idle /\ verifier = Idle /\ orch = Idle

ExtractEntities ==
    /\ entity.pc = "ready"
    /\ \E outcome \in EntityOutcomes :
          entity' = [entity EXCEPT
                        !.pc = "returned",
                        !.outcome = outcome,
                        !.result = extract_entities(entity.query, outcome)]
    /\ UNCHANGED <<refiner, search, relevance, style, verifier, orch>>

NextEntity == ExtractEntities

SpecEntity == InitEntity /\ [][NextEntity]_vars

\* C8: when the model call raises or its output does not parse,
\* extract_entities returns the empty EntitySet and does not raise.
EntityFailClosed ==
    (/\ entity.pc = "returned"
     /\ \/ ~entity.outcome.ok
        \/ json_loads(strip(entity.outcome.content)).raised)
    => (~entity.result.raised /\ entity.result.value = EmptyEntitySet)

\* The call returned a completion cut short, which does not parse.
EntityFailClosedWitness ==
    /\ entity.pc = "returned"
    /\ entity.outcome.ok
    /\ Len(entity.outcome.content) > 1
    /\ json_loads(strip(entity.outcome.content)).raised
    /\ entity.result = Return(EmptyEntitySet)

\* A mapping from entity types of the enumeration to lists of strings.
IsEntitySet(v) ==
    /\ v.type = "object"
    /\ \A i \in 1..Len(v.keys) :
          /\ v.keys[i] \in EntityTypes
          /\ v.items[i].type = "array"
          /\ \A n \in 1..Len(v.items[i].items) : v.items[i].items[n].type = "string"

\* C22: whatever the completion, extract_entities returns the empty
\* EntitySet or a mapping from entity types of the fixed enumeration to
\* lists of strings; a completion of another shape (no mapping, an unknown
\* key, a value that is no list) yields {}.
EntitySetShape ==
    entity.pc = "returned" =>
        /\ ~entity.result.raised
        /\ \/ entity.result.value = EmptyEntitySet
           \/ IsEntitySet(entity.result.value)

(***************************************************************************)
(* Style Selector: OutputStyleAgent.determine_output_style                 *)
(***************************************************************************)

\* The keys of self.styles, in the order the dict lists them.
Styles ==
    <<"event_list", "summary_paragraph", "table_structure", "point_form",
      "question_answer", "timeline">>
StyleTags == {Styles[i] : i \in 1..Len(Styles)}

\* A completion is a sequence of words; a tag holds no blank, so it occurs
\* in the text exactly when it occurs inside one word.
MaxStyleWords == 2
StyleWords ==
    StyleTags \cup {"Event_List", "TIMELINE", "timelines", "format", " "}
StyleTexts == SeqsUpTo(StyleWords, MaxStyleWords)
StyleOutcomes == {CallFailed} \cup {CallOk(t) : t \in StyleTexts}

\* str.lower() of one word.
LowerWord(w) ==
    CASE w = "Event_List" -> "event_list"
      [] w = "TIMELINE" -> "timeline"
      [] OTHER -> w
lower(text) == [i \in 1..Len(text) |-> LowerWord(text[i])]

\* tag in word
InWord(tag, w) == w = tag \/ (tag = "timeline" /\ w = "timelines")
\* tag in text
InText(tag, text) == \E i \in 1..Len(text) : InWord(tag, text[i])

\* for style in self.styles.keys(): if style in suggested_style: return style
RECURSIVE first_style_in(_, _)
first_style_in(suggested_style, i) ==
    IF i > Len(Styles) THEN "summary_paragraph"
    ELSE IF InText(Styles[i], suggested_style) THEN Styles[i]
    ELSE first_style_in(suggested_style, i + 1)

\* The tag of the first word of the text that holds one (text order instead
\* of the order of self.styles).
RECURSIVE first_word_style(_)
first_word_style(suggested_style) ==
    IF suggested_style = <<>> THEN "summary_paragraph"
    ELSE IF \E t \in StyleTags : InWord(t, Head(suggested_style))
         THEN CHOOSE t \in StyleTags : InWord(t, Head(suggested_style))
         ELSE first_word_style(Tail(suggested_style))

determine_output_style_textorder(query, results_data, outcome) ==
    IF ~outcome.ok
    THEN Return("summary_paragraph")
    ELSE Return(first_word_style(lower(strip(outcome.content))))

determine_output_style(query, results_data, outcome) ==
    IF ~outcome.ok
    THEN Return("summary_paragraph")
    ELSE Return(first_style_in(lower(strip(outcome.content)), 1))

StyleQueries == {<<>>, <<"a">>}

InitStyle ==
    /\ style \in {[pc |-> "ready", query |-> q, outcome |-> CallFailed,
                   result |-> Return("summary_paragraph")] : q \in StyleQueries}
    /\ refiner = Idle /\ entity = Idle /\ search = Idle
    /\ relevance = Idle /\ verifier = Idle /\ orch = Idle

DetermineStyle ==
    /\ style.pc = "ready"
    /\ \E outcome \in StyleOutcomes :
          style' = [style EXCEPT
                       !.pc = "returned",
                       !.outcome = outcome,
                       !.result = determine_output_style(style.query, <<>>, outcome)]
    /\ UNCHANGED <<refiner, entity, search, relevance, verifier, orch>>

NextStyle == DetermineStyle

SpecStyle == InitStyle /\ [][NextStyle]_vars

\* The positions, in the order of self.styles, of the tags that occur in the
\* lower-cased completion.
TagsOccurring(text) == {i \in 1..Len(Styles) : InText(Styles[i], lower(text))}

\* C9: the tag returned is the first tag, in the enumeration order, that
\* occurs in the lower-cased output, and summary_paragraph when none occurs
\* or the call fails; it is always one of the six tags.
StyleFirstMatch ==
    style.pc = "returned" =>
        /\ ~style.result.raised
        /\ style.result.value \in StyleTags
        /\ LET occ == TagsOccurring(style.outcome.content)
           IN  IF ~style.outcome.ok \/ occ = {}
               THEN style.result.value = "summary_paragraph"
               ELSE /\ Styles[CHOOSE i \in occ : \A j \in occ : i <= j]
                          = style.result.value

\* The output names two tags, the later one of the enumeration first and in
\* capitals; the earlier one of the enumeration is returned.
StyleFirstMatchWitness ==
    /\ style.pc = "returned"
    /\ style.outcome.ok
    /\ style.outcome.content = <<"TIMELINE", "event_list">>
    /\ style.result.value = "event_list"

(***************************************************************************)
(* Search Client: search_pinecone                                          *)
(***************************************************************************)

MaxPool == 3
MaxTopK == 3
Scores == {1, 2, 3}

\* What index.query returns: it raised, or it returned a pool of matches.
\* A match is its id and its score; the index gives every match its own id.
IndexFailed == [ok |-> FALSE, matches |-> <<>>]
IndexOk(scores) ==
    [ok |-> TRUE, matches |-> [i \in 1..Len(scores) |-> [id |-> i, score |-> scores[i]]]]
IndexOutcomes == {IndexFailed} \cup {IndexOk(p) : p \in SeqsUpTo(Scores, MaxPool)}

\* sorted(matches, key=lambda x: x["score"], reverse=True): a stable sort,
\* matches of equal score keep the order the index gave them.
RECURSIVE insert_desc(_, _)
insert_desc(sorted, m) ==
    IF sorted = <<>> THEN <<m>>
    ELSE IF Head(sorted).score >= m.score
         THEN <<Head(sorted)>> \o insert_desc(Tail(sorted), m)
         ELSE <<m>> \o sorted

RECURSIVE sorted_desc(_)
sorted_desc(matches) ==
    IF matches = <<>> THEN <<>>
    ELSE insert_desc(sorted_desc(SubSeq(matches, 1, Len(matches) - 1)),
                     matches[Len(matches)])

\* The pool cut to top_k before it is sorted.
search_pinecone_cut_first(top_k, embed_ok, index_outcome) ==
    IF ~embed_ok THEN Raise
    ELSE IF ~index_outcome.ok THEN Return(<<>>)
    ELSE Return(sorted_desc(Take(index_outcome.matches, top_k)))

\* The index failure not caught.
search_pinecone_unguarded(top_k, embed_ok, index_outcome) ==
    IF ~embed_ok \/ ~index_outcome.ok THEN Raise
    ELSE Return(Take(sorted_desc(index_outcome.matches), top_k))

\* The value is the "matches" list of the dict returned.  model.encode is
\* called before the try block: its exception leaves the function.
search_pinecone(top_k, embed_ok, index_outcome) ==
    IF ~embed_ok THEN Raise
    ELSE IF ~index_outcome.ok THEN Return(<<>>)
    ELSE Return(Take(sorted_desc(index_outcome.matches), top_k))

InitSearch ==
    /\ search \in {[pc |-> "ready", top_k |-> k, embed_ok |-> TRUE,
                    index_outcome |-> IndexFailed, result |-> Return(<<>>)] :
                       k \in 1..MaxTopK}
    /\ refiner = Idle /\ entity = Idle /\ relevance = Idle
    /\ style = Idle /\ verifier = Idle /\ orch = Idle

Search ==
    /\ search.pc = "ready"
    /\ \E embed_ok \in BOOLEAN, index_outcome \in IndexOutcomes :
          search' = [search EXCEPT
                        !.pc = "returned",
                        !.embed_ok = embed_ok,
                        !.index_outcome = index_outcome,
                        !.result = search_pinecone(search.top_k, embed_ok, index_outcome)]
    /\ UNCHANGED <<refiner, entity, relevance, style, verifier, orch>>

NextSearch == Search

SpecSearch == InitSearch /\ [][NextSearch]_vars

Ids(matches) == {matches[i].id : i \in 1..Len(matches)}

\* C6: for a non-empty pool and top_k >= 1 the matches returned are at most
\* top_k, as many as the pool allows, matches of the pool each taken once,
\* in non-increasing score order, and no match left out scores higher than
\* a match returned.
SearchTopKSorted ==
    (/\ search.pc = "returned"
     /\ search.embed_ok
     /\ search.index_outcome.ok
     /\ search.index_outcome.matches # <<>>)
    => LET pool == search.index_outcome.matches
           out == search.result.value
       IN  /\ ~search.result.raised
           /\ Len(out) = Min(search.top_k, Len(pool))
           /\ \A i \in 1..Len(out) : \E j \in 1..Len(pool) : out[i] = pool[j]
           /\ \A i, j \in 1..Len(out) : i # j => out[i].id # out[j].id
           /\ \A i, j \in 1..Len(out) : i < j => out[i].score >= out[j].score
           /\ \A j \in 1..Len(pool) :
                 pool[j].id \notin Ids(out) =>
                    \A i \in 1..Len(out) : out[i].score >= pool[j].score

\* The pool is larger than top_k and its best match is beyond position
\* top_k: it is returned first.
SearchTopKSortedWitness ==
    /\ search.pc = "returned"
    /\ search.embed_ok
    /\ search.index_outcome.ok
    /\ Len(search.index_outcome.matches) > search.top_k
    /\ LET pool == search.index_outcome.matches
       IN  /\ \A j \in 1..(Len(pool) - 1) : pool[j].score < pool[Len(pool)].score
           /\ search.result.value[1] = pool[Len(pool)]

(***************************************************************************)
(* Search Client: the size of the pool asked of the index                  *)
(***************************************************************************)

\* search_params["top_k"], line 99.
PoolRequested == 30
\* The slider of line 421: what the user may ask for.
TopKChoices == 1..30

\* Lines 97-101: the parameters of index.query for a caller's top_k.
search_params(top_k) == [top_k |-> PoolRequested, include_metadata |-> TRUE]

InitPool ==
    /\ search \in {[pc |-> "request", top_k |-> k, requested |-> 0,
                     pool |-> 0, returned |-> 0] : k \in TopKChoices}
    /\ refiner = Idle /\ entity = Idle /\ relevance = Idle
    /\ style = Idle /\ verifier = Idle /\ orch = Idle

\* The index answers with at most as many matches as it was asked for;
\* line 130 keeps top_k of them.
QueryPool ==
    /\ search.pc = "request"
    /\ \E m \in 0..search_params(search.top_k).top_k :
          search' = [search EXCEPT
                        !.pc = "queried",
                        !.requested = search_params(search.top_k).top_k,
                        !.pool = m,
                        !.returned = Min(m, search.top_k)]
    /\ UNCHANGED <<refiner, entity, relevance, style, verifier, orch>>

NextPool == QueryPool

SpecPool == InitPool /\ [][NextPool]_vars

\* C24: for every top_k the user may choose, the number of candidates asked
\* of the index before truncation is at least 6 * top_k.
PoolAtLeastSixfold ==
    search.pc = "queried" => search.requested >= 6 * search.top_k

(***************************************************************************)
(* Relevance Filter: RelevanceAgent.filter_by_relevance                    *)
(***************************************************************************)

\* Scores and thresholds are counted in tenths: 7 is 0.7.
DefaultScore == 5
Thresholds == {5, 7}

\* A completion is a sequence of tokens: words, the SCORE: token, numerals
\* and line breaks.
Numerals == {"0.4", "0.7", "1.5"}
IsSpace(tok) == tok = " " \/ tok = "\n"

\* float(text): the value of a text that is one numeral inside optional
\* whitespace; any other text raises ValueError.
NumeralValue(tok) ==
    CASE tok = "0.4" -> 4
      [] tok = "0.7" -> 7
      [] tok = "1.5" -> 15

RECURSIVE lstrip_ws(_)
lstrip_ws(s) == IF s # <<>> /\ IsSpace(Head(s)) THEN lstrip_ws(Tail(s)) ELSE s
RECURSIVE rstrip_ws(_)
rstrip_ws(s) ==
    IF s # <<>> /\ IsSpace(s[Len(s)])
    THEN rstrip_ws(SubSeq(s, 1, Len(s) - 1)) ELSE s
\* str.strip() on a sequence of tokens.
strip_ws(s) == rstrip_ws(lstrip_ws(s))

float(text) ==
    LET t == strip_ws(text)
    IN  IF Len(t) = 1 /\ t[1] \in Numerals
        THEN [raised |-> FALSE, value |-> NumeralValue(t[1])]
        ELSE [raised |-> TRUE, value |-> 0]

\* The part of text before the first token sep (all of it when there is none).
RECURSIVE before(_, _)
before(text, sep) ==
    IF text = <<>> \/ Head(text) = sep THEN <<>>
    ELSE <<Head(text)>> \o before(Tail(text), sep)

\* The part of text after the first token sep (empty when there is none).
RECURSIVE after(_, _)
after(text, sep) ==
    IF text = <<>> THEN <<>>
    ELSE IF Head(text) = sep THEN Tail(text) ELSE after(Tail(text), sep)

\* text.split(sep): the parts of text between the tokens sep.
RECURSIVE split(_, _)
split(text, sep) ==
    IF \E i \in 1..Len(text) : text[i] = sep
    THEN <<before(text, sep)>> \o split(after(text, sep), sep)
    ELSE <<text>>

Contains(text, tok) == \E i \in 1..Len(text) : text[i] = tok

\* [x for x in xs if keep(x)] for the lines that hold SCORE:
RECURSIVE score_lines(_)
score_lines(lines) ==
    IF lines = <<>> THEN <<>>
    ELSE (IF Contains(Head(lines), "SCORE:") THEN <<Head(lines)>> ELSE <<>>)
         \o score_lines(Tail(lines))

\* A score: a float, or the string 'Error'.
FloatScore(n) == [sentinel |-> "", num |-> n]
ErrorScore == [sentinel |-> "Error", num |-> 0]
IsNumeric(score) == score.sentinel = ""

\* A parser for which a completion without a usable score scores nothing.
parse_relevance_exclude(result_text) ==
    LET score_line == score_lines(split(result_text, "\n"))
        parsed == IF score_line # <<>>
                  THEN float(split(score_line[1], "SCORE:")[2])
                  ELSE [raised |-> FALSE, value |-> 0]
    IN  IF parsed.raised
        THEN [score |-> FloatScore(0),
              reasoning |-> <<"Error parsing score. ">> \o result_text]
        ELSE [score |-> FloatScore(parsed.value),
              reasoning |-> strip_ws(split(result_text, "SCORE:")[1])]

\* Lines 82-99: the score and the reasoning parsed from a completion.
parse_relevance(result_text) ==
    LET score_line == score_lines(split(result_text, "\n"))
        parsed == IF score_line # <<>>
                  THEN float(split(score_line[1], "SCORE:")[2])
                  ELSE [raised |-> FALSE, value |-> DefaultScore]
    IN  IF parsed.raised
        THEN [score |-> FloatScore(DefaultScore),
              reasoning |-> <<"Error parsing score. ">> \o result_text]
        ELSE [score |-> FloatScore(parsed.value),
              reasoning |-> strip_ws(split(result_text, "SCORE:")[1])]

\* Completions: optional reasoning, then no score line, a score line with a
\* numeral, or a score line without one.
RelevanceTexts ==
    {r \o sc : r \in {<<>>, <<"w", "\n">>},
               sc \in {<<>>, <<"SCORE:">>, <<"SCORE:", "w">>}
                      \cup {<<"SCORE:", " ", n>> : n \in Numerals}}
RelevanceOutcomes == {CallFailed} \cup {CallOk(t) : t \in RelevanceTexts}

MaxCandidates == 2
\* The candidate of position i of a result list: every candidate has its
\* own id.
Candidate(i) ==
    [ID |-> i, Title |-> "T", Content |-> "C", Source |-> "S",
     URL |-> "u" \o ToString(i)]
ResultsData(n) == [i \in 1..n |-> Candidate(i)]

\* d[key] = value
DictSet(d, key, value) ==
    [k \in (DOMAIN d) \cup {key} |-> IF k = key THEN value ELSE d[k]]

\* The state of one call up to its loop: lines 36-41.
relevance_start(query, results_data, threshold) ==
    [pc |-> IF results_data = <<>> THEN "returned" ELSE "loop",
     query |-> query, results_data |-> results_data, threshold |-> threshold,
     i |-> 1, filtered_results |-> <<>>, relevance_analysis |-> <<>>,
     prompts |-> <<>>, raised |-> <<>>, compared |-> <<>>]

\* The comparison of a score with the threshold.
meets_strictly(relevance_score, threshold) == relevance_score > threshold
meets(relevance_score, threshold) == relevance_score >= threshold

\* What the except branch of a failed call does with the candidate: here it
\* is dropped with the default score.
on_call_failure_drop(st, result) ==
    [st EXCEPT
        !.relevance_analysis =
            DictSet(@, result.ID,
                    [score |-> FloatScore(DefaultScore),
                     reasoning |-> <<"Error during evaluation: ", "exception">>,
                     title |-> result.Title])]

\* Lines 112-121.
on_call_failure(st, result) ==
    [st EXCEPT
        !.filtered_results = Append(@, result),
        !.relevance_analysis =
            DictSet(@, result.ID,
                    [score |-> ErrorScore,
                     reasoning |-> <<"Error during evaluation: ", "exception">>,
                     title |-> result.Title])]

\* A pass that files the analysis under the position of arrival instead of
\* the candidate's id.
relevance_iteration_by_position(st, outcome) ==
    LET result == st.results_data[st.i]
        seen == [st EXCEPT
                    !.i = @ + 1,
                    !.pc = IF st.i + 1 > Len(st.results_data)
                           THEN "returned" ELSE "loop",
                    !.prompts = Append(@, [query |-> st.query, ID |-> result.ID]),
                    !.raised = Append(@, ~outcome.ok)]
    IN  IF ~outcome.ok
        THEN on_call_failure(seen, [result EXCEPT !.ID = st.i])
        ELSE LET parsed == parse_relevance(outcome.content)
             IN  [seen EXCEPT
                     !.relevance_analysis =
                         DictSet(@, st.i,
                                 [score |-> parsed.score,
                                  reasoning |-> parsed.reasoning,
                                  title |-> result.Title]),
                     !.compared = Append(@, result.ID),
                     !.filtered_results =
                         IF meets(parsed.score.num, st.threshold)
                         THEN Append(@, result) ELSE @]

\* One pass of the loop of lines 43-121 for the candidate at position st.i.
\* prompts, raised and compared record the call issued, whether it raised
\* and whether line 110 compared the score.
relevance_iteration(st, outcome) ==
    LET result == st.results_data[st.i]
        seen == [st EXCEPT
                    !.i = @ + 1,
                    !.pc = IF st.i + 1 > Len(st.results_data)
                           THEN "returned" ELSE "loop",
                    !.prompts = Append(@, [query |-> st.query, ID |-> result.ID]),
                    !.raised = Append(@, ~outcome.ok)]
    IN  IF ~outcome.ok
        THEN on_call_failure(seen, result)
        ELSE LET parsed == parse_relevance(outcome.content)
             IN  [seen EXCEPT
                     !.relevance_analysis =
                         DictSet(@, result.ID,
                                 [score |-> parsed.score,
                                  reasoning |-> parsed.reasoning,
                                  title |-> result.Title]),
                     !.compared = Append(@, result.ID),
                     !.filtered_results =
                         IF meets(parsed.score.num, st.threshold)
                         THEN Append(@, result) ELSE @]

\* The whole call, given the outcome of the remote call of every candidate.
RECURSIVE relevance_run(_, _)
relevance_run(st, outcomes) ==
    IF st.pc = "returned" THEN st
    ELSE relevance_run(relevance_iteration(st, outcomes[st.i]), outcomes)

filter_by_relevance(query, results_data, threshold, outcomes) ==
    relevance_run(relevance_start(query, results_data, threshold), outcomes)

RelevanceQueries == {<<"a">>}

InitRelevance ==
    /\ relevance \in {relevance_start(q, ResultsData(n), t) :
                         q \in RelevanceQueries, n \in 0..MaxCandidates,
                         t \in Thresholds}
    /\ refiner = Idle /\ entity = Idle /\ search = Idle
    /\ style = Idle /\ verifier = Idle /\ orch = Idle

EvaluateCandidate ==
    /\ relevance.pc = "loop"
    /\ \E outcome \in RelevanceOutcomes :
          relevance' = relevance_iteration(relevance, outcome)
    /\ UNCHANGED <<refiner, entity, search, style, verifier, orch>>

NextRelevance == EvaluateCandidate

SpecRelevance == InitRelevance /\ [][NextRelevance]_vars

InSeq(x, s) == \E i \in 1..Len(s) : s[i] = x

\* C2: a candidate evaluated to a numeric score s is retained if and only
\* if s >= threshold.
RelevanceThresholdInclusive ==
    relevance.pc \in {"loop", "returned"} =>
        \A k \in 1..(relevance.i - 1) :
            LET c == relevance.results_data[k]
                score == relevance.relevance_analysis[c.ID].score
            IN  IsNumeric(score) =>
                   (InSeq(c, relevance.filtered_results)
                      <=> score.num >= relevance.threshold)

\* One candidate scored exactly the threshold from its SCORE: line and was
\* kept, another scored below it and was dropped.
RelevanceThresholdWitness ==
    /\ relevance.pc = "returned"
    /\ Len(relevance.results_data) = 2
    /\ relevance.raised = <<FALSE, FALSE>>
    /\ relevance.threshold = 7
    /\ relevance.relevance_analysis[1].score = FloatScore(7)
    /\ relevance.relevance_analysis[2].score = FloatScore(4)
    /\ relevance.filtered_results = <<Candidate(1)>>

\* C3: a candidate whose call raised is retained unmodified whatever the
\* threshold, its score is the sentinel "Error", the score is not compared
\* with the threshold, and the candidates after it are evaluated.
RelevanceFailOpen ==
    relevance.pc \in {"loop", "returned"} =>
        /\ \A k \in 1..(relevance.i - 1) :
              relevance.raised[k] =>
                 LET c == relevance.results_data[k]
                 IN  /\ InSeq(c, relevance.filtered_results)
                     /\ relevance.relevance_analysis[c.ID].score = ErrorScore
                     /\ relevance.relevance_analysis[c.ID].score
                           # FloatScore(DefaultScore)
                     /\ ~InSeq(c.ID, relevance.compared)
        /\ relevance.pc = "returned" =>
              /\ relevance.i = Len(relevance.results_data) + 1
              /\ DOMAIN relevance.relevance_analysis
                    = {relevance.results_data[k].ID :
                          k \in 1..Len(relevance.results_data)}

\* The first call raised and its candidate was kept; the second candidate
\* was then evaluated and dropped.
RelevanceFailOpenWitness ==
    /\ relevance.pc = "returned"
    /\ relevance.raised = <<TRUE, FALSE>>
    /\ relevance.filtered_results = <<Candidate(1)>>
    /\ relevance.relevance_analysis[1].score = ErrorScore
    /\ IsNumeric(relevance.relevance_analysis[2].score)
    /\ relevance.compared = <<2>>

\* C20: every score stored in the relevance analysis is a number of the
\* closed interval [0,1] or the sentinel "Error", whatever the completions
\* were, a SCORE: line with a number outside the interval included.
ScoreWithinUnitInterval ==
    relevance.pc \in {"loop", "returned"} =>
        \A id \in DOMAIN relevance.relevance_analysis :
            LET score == relevance.relevance_analysis[id].score
            IN  \/ score = ErrorScore
                \/ IsNumeric(score) /\ 0 <= score.num /\ score.num <= 10

(***************************************************************************)
(* Relevance Filter: the parsing of one completion, lines 79-111           *)
(***************************************************************************)

\* Completions of any shape: up to MaxScoreTextLen tokens.
MaxScoreTextLen == 4
ScoreTokens == {"SCORE:", " ", "\n", "w", "0.7", "1.5"}
ScoreTexts == SeqsUpTo(ScoreTokens, MaxScoreTextLen)

InitScore ==
    /\ relevance \in {[pc |-> "completion", result_text |-> t, threshold |-> th,
                        parsed |-> [score |-> ErrorScore, reasoning |-> <<>>],
                        kept |-> FALSE] :
                          t \in ScoreTexts, th \in Thresholds}
    /\ refiner = Idle /\ entity = Idle /\ search = Idle
    /\ style = Idle /\ verifier = Idle /\ orch = Idle

\* Lines 82-111 for one completion.
ParseScore ==
    /\ relevance.pc = "completion"
    /\ LET parsed == parse_relevance(relevance.result_text)
       IN  relevance' = [relevance EXCEPT
                            !.pc = "parsed",
                            !.parsed = parsed,
                            !.kept = meets(parsed.score.num, relevance.threshold)]
    /\ UNCHANGED <<refiner, entity, search, style, verifier, orch>>

NextScore == ParseScore

SpecScore == InitScore /\ [][NextScore]_vars

\* C19: when no line of the completion holds SCORE:, or the text after
\* SCORE: on the first such line is no float, the score recorded is the
\* number 0.5, the reasoning recorded is the raw completion (blanks around
\* it apart), and the candidate is kept exactly when 0.5 >= threshold.
ParseFailureDefaults ==
    relevance.pc = "parsed" =>
        LET score_line == score_lines(split(relevance.result_text, "\n"))
        IN  (score_line = <<>> \/ float(after(score_line[1], "SCORE:")).raised) =>
               /\ relevance.parsed.score = FloatScore(5)
               /\ strip_ws(relevance.parsed.reasoning) = strip_ws(relevance.result_text)
               /\ relevance.kept <=> 5 >= relevance.threshold

\* C19, amended: the text parsed is the one between the first SCORE: of
\* the line and the next SCORE: of that line (the end of the line when
\* there is none); when there is no SCORE: line the reasoning is the
\* completion without the blanks around it, and when the text is no float
\* the reasoning is "Error parsing score. " followed by the raw completion.
ParseFailureDefaultsPrefixed ==
    relevance.pc = "parsed" =>
        LET score_line == score_lines(split(relevance.result_text, "\n"))
        IN  (score_line = <<>> \/ float(before(after(score_line[1], "SCORE:"), "SCORE:")).raised) =>
               /\ relevance.parsed.score = FloatScore(5)
               /\ relevance.parsed.reasoning =
                     IF score_line = <<>> THEN strip_ws(relevance.result_text)
                     ELSE <<"Error parsing score. ">> \o relevance.result_text
               /\ relevance.kept <=> 5 >= relevance.threshold

\* A SCORE: line without a number, threshold 0.5: scored 0.5 and kept.
ParseFailureDefaultsWitness ==
    /\ relevance.pc = "parsed"
    /\ relevance.result_text = <<"w", "\n", "SCORE:", "w">>
    /\ relevance.threshold = 5
    /\ relevance.parsed.score = FloatScore(5)
    /\ relevance.kept

(***************************************************************************)
(* Fact Verifier: FactVerificationAgent.extract_claims_from_summary        *)
(***************************************************************************)

\* line.strip().startswith("CLAIM:")
starts_with_marker(line) ==
    strip_ws(line) # <<>> /\ Head(strip_ws(line)) = "CLAIM:"

\* line.replace("CLAIM: ", ""): every "CLAIM:" that a blank follows is
\* removed with its blank.
RECURSIVE replace_marker(_)
replace_marker(line) ==
    IF line = <<>> THEN <<>>
    ELSE IF Len(line) >= 2 /\ line[1] = "CLAIM:" /\ line[2] = " "
         THEN replace_marker(SubSeq(line, 3, Len(line)))
         ELSE <<Head(line)>> \o replace_marker(Tail(line))

\* Line 53.
RECURSIVE claims_of_lines(_)
claims_of_lines(lines) ==
    IF lines = <<>> THEN <<>>
    ELSE (IF starts_with_marker(Head(lines))
          THEN <<strip_ws(replace_marker(Head(lines)))>> ELSE <<>>)
         \o claims_of_lines(Tail(lines))

extract_claims_from_summary(summary_text, outcome) ==
    IF ~outcome.ok THEN <<>>
    ELSE claims_of_lines(split(outcome.content, "\n"))

\* Responses of the extraction call: up to MaxClaimTextLen tokens.
MaxClaimTextLen == 4
ClaimTokens == {"CLAIM:", " ", "w", "\n"}
ClaimTexts == SeqsUpTo(ClaimTokens, MaxClaimTextLen)
ClaimOutcomes == {CallFailed} \cup {CallOk(t) : t \in ClaimTexts}

InitClaims ==
    /\ verifier \in {[pc |-> "summary", summary_text |-> <<"summary">>,
                       outcome |-> o, claims |-> <<>>] : o \in ClaimOutcomes}
    /\ refiner = Idle /\ entity = Idle /\ search = Idle
    /\ relevance = Idle /\ style = Idle /\ orch = Idle

ExtractClaims ==
    /\ verifier.pc = "summary"
    /\ verifier' = [verifier EXCEPT
                       !.pc = "extracted",
                       !.claims = extract_claims_from_summary(verifier.summary_text,
                                                              verifier.outcome)]
    /\ UNCHANGED <<refiner, entity, search, relevance, style, orch>>

NextClaims == ExtractClaims

SpecClaims == InitClaims /\ [][NextClaims]_vars

\* The lines of a text that start with the marker, blanks apart, in order.
RECURSIVE MarkedLines(_)
MarkedLines(lines) ==
    IF lines = <<>> THEN <<>>
    ELSE (IF lstrip_ws(Head(lines)) # <<>> /\ Head(lstrip_ws(Head(lines))) = "CLAIM:"
          THEN <<Head(lines)>> ELSE <<>>)
         \o MarkedLines(Tail(lines))

\* C15: the claims returned are, in response order, one per response line
\* that starts with the marker CLAIM:, each being the text of its line
\* without the leading marker and otherwise unchanged (blanks around it
\* apart); the other lines contribute nothing.
ClaimsAreMarkedLines ==
    (verifier.pc = "extracted" /\ verifier.outcome.ok) =>
        LET marked == MarkedLines(split(verifier.outcome.content, "\n"))
        IN  /\ Len(verifier.claims) = Len(marked)
            /\ \A k \in 1..Len(marked) :
                  verifier.claims[k] = strip_ws(Tail(lstrip_ws(marked[k])))

(***************************************************************************)
(* Fact Verifier: FactVerificationAgent.verify_claims_in_articles          *)
(***************************************************************************)

\* The four levels the regular expression of line 134 knows.
Levels ==
    {"DIRECTLY SUPPORTED", "INDIRECTLY SUPPORTED", "NOT SUPPORTED", "CONTRADICTED"}

\* f"Claim {n}"
Label(n) == "Claim " \o ToString(n)
MaxLabel == 3

\* Whether the decimal numeral of n starts with the numeral of j: the text
\* "Claim 1" occurs in "Claim 10".
RECURSIVE DecimalPrefix(_, _)
DecimalPrefix(j, n) == n = j \/ (n >= 10 /\ DecimalPrefix(j, n \div 10))

\* f"Claim {j}" in section
HasLabel(section, j) ==
    \E i \in 1..Len(section), n \in 1..MaxLabel :
        section[i] = Label(n) /\ DecimalPrefix(j, n)

\* [s for s in claim_sections if f"Claim {j}" in s]
RECURSIVE matching_sections(_, _)
matching_sections(claim_sections, j) ==
    IF claim_sections = <<>> THEN <<>>
    ELSE (IF HasLabel(Head(claim_sections), j) THEN <<Head(claim_sections)>> ELSE <<>>)
         \o matching_sections(Tail(claim_sections), j)

\* re.search(r"VERIFICATION:\s*(DIRECTLY SUPPORTED|...|CONTRADICTED)", section):
\* the level that follows the first VERIFICATION: token that is followed,
\* after optional whitespace, by a level; "" when there is no match.
RECURSIVE verification_match(_)
verification_match(section) ==
    IF section = <<>> THEN ""
    ELSE IF Head(section) = "VERIFICATION:"
            /\ lstrip_ws(Tail(section)) # <<>>
            /\ Head(lstrip_ws(Tail(section))) \in Levels
         THEN Head(lstrip_ws(Tail(section)))
         ELSE verification_match(Tail(section))

\* An alignment by position alone, labels ignored.
verify_section_positional(claim_sections, j0) ==
    LET section == IF j0 < Len(claim_sections) THEN claim_sections[j0 + 1]
                   ELSE <<>>
    IN  IF section # <<>>
        THEN [verification_status |->
                  IF verification_match(section) # ""
                  THEN verification_match(section) ELSE "UNKNOWN",
              reasoning |->
                  IF Contains(section, "VERIFICATION:")
                  THEN strip_ws(split(section, "VERIFICATION:")[1])
                  ELSE section]
        ELSE [verification_status |-> "UNKNOWN",
              reasoning |-> <<"Could not extract verification for this claim">>]

\* Lines 127-158 for the claim of 0-based position j0: its status and its
\* reasoning in the response of one article.
verify_section(claim_sections, j0) ==
    LET matching == matching_sections(claim_sections, j0 + 1)
        section == IF matching # <<>> THEN matching[1]
                   ELSE IF j0 < Len(claim_sections) THEN claim_sections[j0 + 1]
                   ELSE <<>>
    IN  IF section # <<>>
        THEN [verification_status |->
                  IF verification_match(section) # ""
                  THEN verification_match(section) ELSE "UNKNOWN",
              reasoning |->
                  IF Contains(section, "VERIFICATION:")
                  THEN strip_ws(split(section, "VERIFICATION:")[1])
                  ELSE section]
        ELSE [verification_status |-> "UNKNOWN",
              reasoning |-> <<"Could not extract verification for this claim">>]

\* The record appended for one claim and one article.
VerificationRecord(article, checked) ==
    [article_id |-> article.ID, article_title |-> article.Title,
     article_source |-> article.Source, article_url |-> article.URL,
     verification_status |-> checked.verification_status,
     reasoning |-> checked.reasoning]

ErrorChecked ==
    [verification_status |-> "ERROR",
     reasoning |-> <<"Error during verification: ", "exception">>]

\* The for loops of lines 127 and 163: one record appended per position of
\* the claim list, to the list kept under the claim's text.
RECURSIVE append_records(_, _, _, _, _)
append_records(verification_results, claims, article, outcome, j) ==
    IF j > Len(claims) THEN verification_results
    ELSE LET checked == IF outcome.ok
                        THEN verify_section(split(outcome.content, "---"), j - 1)
                        ELSE ErrorChecked
         IN  append_records(
                 [verification_results EXCEPT
                     ![claims[j]] = Append(@, VerificationRecord(article, checked))],
                 claims, article, outcome, j + 1)

\* The keys of a dict built from a list, in insertion order.
RECURSIVE dict_keys(_)
dict_keys(claims) ==
    IF claims = <<>> THEN <<>>
    ELSE LET front == dict_keys(SubSeq(claims, 1, Len(claims) - 1))
             last == claims[Len(claims)]
         IN  IF InSeq(last, front) THEN front ELSE Append(front, last)

IsSupporting(status) == status \in {"DIRECTLY SUPPORTED", "INDIRECTLY SUPPORTED"}

\* f"[{result['article_source']}]({result['article_url']})"
source_link(result) ==
    "[" \o result.article_source \o "](" \o result.article_url \o ")"

\* Lines 178-183.
RECURSIVE supporting_articles_of(_)
supporting_articles_of(results) ==
    IF results = <<>> THEN <<>>
    ELSE (IF IsSupporting(Head(results).verification_status)
          THEN <<source_link(Head(results))>> ELSE <<>>)
         \o supporting_articles_of(Tail(results))

\* Lines 185-191.
claim_verdict(n_supporting) ==
    IF n_supporting >= 2 THEN "Verified"
    ELSE IF n_supporting = 1 THEN "Partially Verified"
    ELSE "Not Verified"

\* ", ".join(parts)
RECURSIVE join(_, _)
join(parts, sep) ==
    IF parts = <<>> THEN <<>>
    ELSE IF Len(parts) = 1 THEN <<parts[1]>>
    ELSE <<parts[1], sep>> \o join(Tail(parts), sep)

\* Lines 176-200 for one claim: the string appended to final_results, as its
\* pieces, with the locals it is made of.
format_result(claim, results) ==
    LET supporting_articles == supporting_articles_of(results)
        verification_status == claim_verdict(Len(supporting_articles))
    IN  [claim |-> claim,
         supporting_articles |-> supporting_articles,
         verification_status |-> verification_status,
         result_str |->
             IF supporting_articles # <<>>
             THEN claim \o <<" - ">> \o join(supporting_articles, ", ")
                  \o <<" : (", verification_status, ")">>
             ELSE claim \o <<" - ", "No supporting articles", " : (",
                            verification_status, ")">>]

final_results_of(verification_results, keys) ==
    [k \in 1..Len(keys) |-> format_result(keys[k], verification_results[keys[k]])]

\* Line 85: the numbered list of all the claims, put in the prompt of every
\* article.
claims_text(claims) == [j \in 1..Len(claims) |-> <<Label(j), claims[j]>>]

\* The state of one call up to its loop (line 74); with no article the
\* results are formatted at once.  prompts records the remote calls issued,
\* raised whether each of them raised.
verifier_start(claims, articles) ==
    LET verification_results == [c \in {claims[j] : j \in 1..Len(claims)} |-> <<>>]
    IN  [pc |-> IF articles = <<>> THEN "returned" ELSE "loop",
         claims |-> claims, articles |-> articles, i |-> 1,
         verification_results |-> verification_results,
         prompts |-> <<>>, raised |-> <<>>,
         final_results |->
             IF articles = <<>>
             THEN final_results_of(verification_results, dict_keys(claims))
             ELSE <<>>]

\* A loop that gives up at the first call that raises.
verifier_iteration_abort(st, outcome) ==
    LET article == st.articles[st.i]
        verification_results ==
            append_records(st.verification_results, st.claims, article, outcome, 1)
        last == st.i + 1 > Len(st.articles) \/ ~outcome.ok
    IN  [st EXCEPT
            !.i = @ + 1,
            !.pc = IF last THEN "returned" ELSE "loop",
            !.verification_results = verification_results,
            !.prompts = Append(@, [claims_text |-> claims_text(st.claims),
                                   ID |-> article.ID]),
            !.raised = Append(@, ~outcome.ok),
            !.final_results =
                IF last
                THEN final_results_of(verification_results, dict_keys(st.claims))
                ELSE <<>>]

\* One pass of the loop of lines 77-171 for the article at position st.i,
\* one remote call; after the last article, lines 173-202.
verifier_iteration(st, outcome) ==
    LET article == st.articles[st.i]
        verification_results ==
            append_records(st.verification_results, st.claims, article, outcome, 1)
        last == st.i + 1 > Len(st.articles)
    IN  [st EXCEPT
            !.i = @ + 1,
            !.pc = IF last THEN "returned" ELSE "loop",
            !.verification_results = verification_results,
            !.prompts = Append(@, [claims_text |-> claims_text(st.claims),
                                   ID |-> article.ID]),
            !.raised = Append(@, ~outcome.ok),
            !.final_results =
                IF last
                THEN final_results_of(verification_results, dict_keys(st.claims))
                ELSE <<>>]

RECURSIVE verifier_run(_, _)
verifier_run(st, outcomes) ==
    IF st.pc = "returned" THEN st
    ELSE verifier_run(verifier_iteration(st, outcomes[st.i]), outcomes)

verify_claims_in_articles(claims, articles, outcomes) ==
    verifier_run(verifier_start(claims, articles), outcomes)

\* Claim lists: a claim is a text, and the model may repeat a claim.
ClaimX == <<"X">>
ClaimY == <<"Y">>
ClaimLists == {<<>>, <<ClaimX>>, <<ClaimX, ClaimY>>, <<ClaimX, ClaimX>>}
MaxArticles == 3

\* The section of a well-formed response for the claim of position j.
Section(j, level) == <<Label(j), " ", "w", "\n", "VERIFICATION:", " ", level>>

\* Responses to n claims: one labelled section per claim, each with a level,
\* or prose without any structure.
VerifierTexts(n) ==
    {<<"w">>}
    \cup (CASE n = 0 -> {}
            [] n = 1 -> {Section(1, l) : l \in Levels}
            [] n = 2 -> {Section(1, l1) \o <<"---">> \o Section(2, l2) :
                            l1 \in Levels, l2 \in Levels})
VerifierOutcomes(n) == {CallFailed} \cup {CallOk(t) : t \in VerifierTexts(n)}

InitVerifier ==
    /\ verifier \in {verifier_start(claims, ResultsData(n)) :
                        claims \in ClaimLists, n \in 0..MaxArticles}
    /\ refiner = Idle /\ entity = Idle /\ search = Idle
    /\ relevance = Idle /\ style = Idle /\ orch = Idle

VerifyArticle ==
    /\ verifier.pc = "loop"
    /\ \E outcome \in VerifierOutcomes(Len(verifier.claims)) :
          verifier' = verifier_iteration(verifier, outcome)
    /\ UNCHANGED <<refiner, entity, search, relevance, style, orch>>

NextVerifier == VerifyArticle

SpecVerifier == InitVerifier /\ [][NextVerifier]_vars

\* The positions of the articles with a supporting record for the claim text.
Corroborating(claim) ==
    {a \in 1..Len(verifier.articles) :
        \E r \in 1..Len(verifier.verification_results[claim]) :
            /\ verifier.verification_results[claim][r].article_id = verifier.articles[a].ID
            /\ IsSupporting(verifier.verification_results[claim][r].verification_status)}

\* C1: the citations of a claim are the candidates with a DIRECTLY or
\* INDIRECTLY SUPPORTED record for it, one citation per such candidate; the
\* verdict is Verified for two or more of them, Partially Verified for one,
\* Not Verified for none, and with no citation the result string reads
\* "No supporting articles".
VerdictCountsCorroboratingCandidates ==
    verifier.pc = "returned" =>
        \A k \in 1..Len(verifier.final_results) :
            LET res == verifier.final_results[k]
                n == Cardinality(Corroborating(res.claim))
            IN  /\ Len(res.supporting_articles) = n
                /\ \A a \in Corroborating(res.claim) :
                      InSeq(source_link(VerificationRecord(verifier.articles[a], ErrorChecked)),
                            res.supporting_articles)
                /\ res.verification_status = "Verified" <=> n >= 2
                /\ res.verification_status = "Partially Verified" <=> n = 1
                /\ res.verification_status = "Not Verified" <=> n = 0
                /\ n = 0 <=> InSeq("No supporting articles", res.result_str)

\* The records kept for a claim text that come from the article of
\* position a.
RecordsOf(claim, a) ==
    SelectSeq(verifier.verification_results[claim],
              LAMBDA r : r.article_id = verifier.articles[a].ID)

IsPrefix(s, t) == Len(s) <= Len(t) /\ SubSeq(t, 1, Len(s)) = s

\* C11: when the verification call of a candidate raises, every claim has
\* exactly one record for that candidate, its status is ERROR and its
\* reasoning carries the exception text; the loop goes on to the remaining
\* candidates, and a pass of the loop only appends records of its own
\* candidate, leaving the records of the other documents as they were.
ErrorRecordPerClaimAndCandidate ==
    /\ [](verifier.pc \in {"loop", "returned"} =>
            /\ \A a \in 1..(verifier.i - 1) :
                  verifier.raised[a] =>
                     \A j \in 1..Len(verifier.claims) :
                        LET recs == RecordsOf(verifier.claims[j], a)
                        IN  /\ Len(recs) = 1
                            /\ recs[1].verification_status = "ERROR"
                            /\ InSeq("exception", recs[1].reasoning)
            /\ verifier.pc = "returned" =>
                  verifier.i = Len(verifier.articles) + 1)
    /\ [][verifier.pc = "loop" =>
             \A c \in DOMAIN verifier.verification_results :
                /\ IsPrefix(verifier.verification_results[c],
                            verifier'.verification_results[c])
                /\ \A r \in (Len(verifier.verification_results[c]) + 1)
                              ..Len(verifier'.verification_results[c]) :
                      verifier'.verification_results[c][r].article_id
                         = verifier.articles[verifier.i].ID]_vars

\* C13: for a non-empty claim list the call issues one remote call per
\* candidate, n calls for n candidates, each for its own candidate and each
\* carrying all the claims as one numbered list, whatever the number of
\* claims and whether or not earlier calls raised.
OneCallPerCandidate ==
    (verifier.pc \in {"loop", "returned"} /\ verifier.claims # <<>>) =>
        /\ Len(verifier.prompts) = verifier.i - 1
        /\ \A k \in 1..Len(verifier.prompts) :
              /\ verifier.prompts[k].ID = verifier.articles[k].ID
              /\ Len(verifier.prompts[k].claims_text) = Len(verifier.claims)
              /\ \A j \in 1..Len(verifier.claims) :
                    verifier.prompts[k].claims_text[j]
                       = <<"Claim " \o ToString(j), verifier.claims[j]>>
        /\ verifier.pc = "returned" =>
              Len(verifier.prompts) = Len(verifier.articles)

\* Two claims, three candidates, the first call raised: three calls.
OneCallPerCandidateWitness ==
    /\ verifier.pc = "returned"
    /\ verifier.claims = <<ClaimX, ClaimY>>
    /\ verifier.raised = <<TRUE, FALSE, FALSE>>
    /\ Len(verifier.prompts) = 3

\* The records of a claim had every document that failed or could not be
\* parsed answered NOT SUPPORTED instead.
AnsweredNotSupported(results) ==
    [r \in 1..Len(results) |->
        IF results[r].verification_status \in {"ERROR", "UNKNOWN"}
        THEN [results[r] EXCEPT !.verification_status = "NOT SUPPORTED"]
        ELSE results[r]]

\* C16: a claim with an ERROR or UNKNOWN record still has a verdict, and
\* what is returned for it shows that level: the returned string is not the
\* one returned had the same documents answered NOT SUPPORTED.
FailureLevelSurfaced ==
    verifier.pc = "returned" =>
        \A j \in 1..Len(verifier.claims) :
            LET claim == verifier.claims[j]
                results == verifier.verification_results[claim]
            IN  (\E r \in 1..Len(results) :
                    results[r].verification_status \in {"ERROR", "UNKNOWN"}) =>
                   \E k \in 1..Len(verifier.final_results) :
                      /\ verifier.final_results[k].claim = claim
                      /\ verifier.final_results[k].result_str
                            # format_result(claim, AnsweredNotSupported(results)).result_str

\* C17: whether or not the claims are textually distinct, the call returns
\* one result per claim of the list, in the order of the list, and the
\* result of a claim aggregates exactly one record per candidate.
OneVerdictPerClaim ==
    verifier.pc = "returned" =>
        /\ Len(verifier.final_results) = Len(verifier.claims)
        /\ \A j \in 1..Len(verifier.final_results) :
              j <= Len(verifier.claims) =>
                 /\ verifier.final_results[j].claim = verifier.claims[j]
                 /\ \A a \in 1..Len(verifier.articles) :
                       Len(RecordsOf(verifier.claims[j], a)) = 1

(***************************************************************************)
(* Fact Verifier: the parsing of one response, lines 121-158               *)
(***************************************************************************)

\* Responses of any shape: up to MaxResponseLen tokens.
MaxResponseLen == 4
ResponseTokens ==
    {"Claim 1", "Claim 2", " ", "w", "VERIFICATION:", "NOT SUPPORTED", "---"}
ResponseTexts == SeqsUpTo(ResponseTokens, MaxResponseLen)
ClaimPositions == {0, 1}

InitSection ==
    /\ verifier \in {[pc |-> "response", response_text |-> t, j |-> j0,
                       checked |-> [verification_status |-> "", reasoning |-> <<>>]] :
                         t \in ResponseTexts, j0 \in ClaimPositions}
    /\ refiner = Idle /\ entity = Idle /\ search = Idle
    /\ relevance = Idle /\ style = Idle /\ orch = Idle

\* Lines 124-158 for the claim of position verifier.j.
ParseSection ==
    /\ verifier.pc = "response"
    /\ verifier' = [verifier EXCEPT
                       !.pc = "parsed",
                       !.checked = verify_section(split(verifier.response_text, "---"),
                                                  verifier.j)]
    /\ UNCHANGED <<refiner, entity, search, relevance, style, orch>>

NextSection == ParseSection

SpecSection == InitSection /\ [][NextSection]_vars

\* The positions of the VERIFICATION: tokens of a section that a level
\* follows, blanks apart.
LevelTokens(section) ==
    {i \in 1..Len(section) :
        /\ section[i] = "VERIFICATION:"
        /\ lstrip_ws(SubSeq(section, i + 1, Len(section))) # <<>>
        /\ Head(lstrip_ws(SubSeq(section, i + 1, Len(section)))) \in Levels}

Lowest(S) == CHOOSE x \in S : \A y \in S : x <= y

\* The section the claim of 0-based position j0 is read from: the first
\* that contains the label of ordinal j0+1, else the one of position j0,
\* else none.
SectionUsed(sections, j0) ==
    LET labelled == {k \in 1..Len(sections) : HasLabel(sections[k], j0 + 1)}
    IN  IF labelled # {} THEN sections[Lowest(labelled)]
        ELSE IF j0 + 1 <= Len(sections) THEN sections[j0 + 1] ELSE <<>>

\* C14: the section used for the claim of 0-based position j is the first
\* section that contains the label of ordinal j+1, or else the section of
\* position j when there is one and it is not empty, or else the record is
\* UNKNOWN; in the section used the status is the level found after a
\* VERIFICATION: token, the first such, or UNKNOWN when there is none, and
\* the reasoning is the text before that token.
SectionAlignment ==
    verifier.pc = "parsed" =>
        LET sections == split(verifier.response_text, "---")
            used == SectionUsed(sections, verifier.j)
            at == LevelTokens(used)
        IN  IF used = <<>> \/ at = {}
            THEN verifier.checked.verification_status = "UNKNOWN"
            ELSE /\ verifier.checked.verification_status
                       = Head(lstrip_ws(SubSeq(used, Lowest(at) + 1, Len(used))))
                 /\ strip_ws(verifier.checked.reasoning)
                       = strip_ws(SubSeq(used, 1, Lowest(at) - 1))

\* C14, amended: the section and the status are as stated; the reasoning
\* is the text before the first VERIFICATION: token of the section used,
\* without the blanks around it, whether or not the status was read after
\* that token, and the whole section when it has no such token; without a
\* section the reasoning is a fixed message.
SectionAlignmentFirstToken ==
    verifier.pc = "parsed" =>
        LET sections == split(verifier.response_text, "---")
            used == SectionUsed(sections, verifier.j)
            at == LevelTokens(used)
        IN  /\ verifier.checked.verification_status =
                  IF used = <<>> \/ at = {} THEN "UNKNOWN"
                  ELSE Head(lstrip_ws(SubSeq(used, Lowest(at) + 1, Len(used))))
            /\ verifier.checked.reasoning =
                  IF used = <<>>
                  THEN <<"Could not extract verification for this claim">>
                  ELSE IF InSeq("VERIFICATION:", used)
                       THEN strip_ws(before(used, "VERIFICATION:"))
                       ELSE used

\* The second claim was read from the only section, which carries its
\* label, and not from the missing section of its position.
SectionAlignmentWitness ==
    /\ verifier.pc = "parsed"
    /\ verifier.j = 1
    /\ verifier.response_text = <<"Claim 2", "w", "VERIFICATION:", "NOT SUPPORTED">>
    /\ verifier.checked.verification_status = "NOT SUPPORTED"
    /\ verifier.checked.reasoning = <<"Claim 2", "w">>

\* Whether a section carries the label of a claim other than ordinal k.
LabelledForAnother(section, k) ==
    \E n \in (1..MaxLabel) \ {k} : InSeq(Label(n), section)

\* C28: the level recorded for the claim of ordinal k is UNKNOWN, or the
\* level stated in a section that carries the label of claim k, or the
\* level stated in the section of position k when that section carries the
\* label of no other claim; a level stated under the label of another
\* claim is never recorded for claim k.
NoMisalignedVerification ==
    verifier.pc = "parsed" =>
        LET sections == split(verifier.response_text, "---")
            k == verifier.j + 1
            recorded == verifier.checked.verification_status
        IN  \/ recorded = "UNKNOWN"
            \/ \E s \in 1..Len(sections) :
                   /\ InSeq(Label(k), sections[s])
                   /\ verification_match(sections[s]) = recorded
            \/ /\ k <= Len(sections)
               /\ ~LabelledForAnother(sections[k], k)
               /\ verification_match(sections[k]) = recorded

(***************************************************************************)
(* display_verification_results: the result strings read back              *)
(***************************************************************************)

\* ": (Verified)" in result, for a result held as tokens: the mark is made
\* of the tokens " : (", the verdict and ")", or is a word of the claim.
HasVerdictMark(result, verdict) ==
    \/ \E i \in 1..Len(result) :
          /\ i + 2 <= Len(result)
          /\ result[i] = " : (" /\ result[i + 1] = verdict /\ result[i + 2] = ")"
    \/ InSeq(": (" \o verdict \o ")", result)

\* Lines 281-287.
get_verification_priority(result) ==
    IF HasVerdictMark(result, "Verified") THEN 0
    ELSE IF HasVerdictMark(result, "Partially Verified") THEN 1
    ELSE 2

\* sorted(verification_results, key=get_verification_priority), line 289:
\* a stable sort on three keys.
RECURSIVE with_priority(_, _)
with_priority(results, p) ==
    IF results = <<>> THEN <<>>
    ELSE (IF get_verification_priority(Head(results).result_str) = p
          THEN <<Head(results)>> ELSE <<>>)
         \o with_priority(Tail(results), p)

sorted_results(results) ==
    with_priority(results, 0) \o with_priority(results, 1) \o with_priority(results, 2)

\* parts[1].rstrip(")")
RECURSIVE rstrip_paren(_)
rstrip_paren(s) ==
    IF s # <<>> /\ s[Len(s)] = ")" THEN rstrip_paren(SubSeq(s, 1, Len(s) - 1)) ELSE s

\* Lines 298-312 for one result string: what the expander shows.
parse_result(result) ==
    LET parts == split(result, " : (")
    IN  IF Len(parts) # 2
        THEN [raw |-> TRUE, claim |-> result, sources_text |-> <<>>, status |-> <<>>]
        ELSE LET claim_and_sources == parts[1]
             IN  [raw |-> FALSE,
                  claim |-> IF InSeq(" - ", claim_and_sources)
                            THEN before(claim_and_sources, " - ")
                            ELSE claim_and_sources,
                  sources_text |-> IF InSeq(" - ", claim_and_sources)
                                   THEN after(claim_and_sources, " - ")
                                   ELSE <<"No supporting articles">>,
                  status |-> rstrip_paren(parts[2])]

\* Claim texts as the summarizer may word them.
DisplayClaimTexts ==
    {<<"w">>, <<"w", " - ", "w">>, <<"w", " : (", "w">>, <<"w", ": (Verified)">>}
MaxShown == 2
SupportCounts == 0..2

\* The records of a claim that n articles support.
SupportedBy(n) ==
    [a \in 1..n |->
        VerificationRecord(Candidate(a),
                           [verification_status |-> "DIRECTLY SUPPORTED",
                            reasoning |-> <<"w">>])]

\* The list verify_claims_in_articles returns: one entry per claim text.
InitDisplay ==
    /\ verifier \in
          {[pc |-> "verified",
            final_results |-> [k \in 1..Len(cs) |-> format_result(cs[k], SupportedBy(ns[k]))],
            sorted |-> <<>>, shown |-> <<>>] :
              cs \in {c \in SeqsUpTo(DisplayClaimTexts, MaxShown) :
                         c # <<>> /\ \A i, j \in 1..Len(c) : c[i] = c[j] => i = j},
              ns \in [1..MaxShown -> SupportCounts]}
    /\ refiner = Idle /\ entity = Idle /\ search = Idle
    /\ relevance = Idle /\ style = Idle /\ orch = Idle

\* Lines 289-335.
DisplayVerificationResults ==
    /\ verifier.pc = "verified"
    /\ LET ordered == sorted_results(verifier.final_results)
       IN  verifier' = [verifier EXCEPT
                           !.pc = "displayed",
                           !.sorted = ordered,
                           !.shown = [i \in 1..Len(ordered) |->
                                         parse_result(ordered[i].result_str)]]
    /\ UNCHANGED <<refiner, entity, search, relevance, style, orch>>

NextDisplay == DisplayVerificationResults

SpecDisplay == InitDisplay /\ [][NextDisplay]_vars

VerdictRank(verdict) ==
    CASE verdict = "Verified" -> 0
      [] verdict = "Partially Verified" -> 1
      [] OTHER -> 2

\* C29: every result string, read back as display_verification_results
\* reads it, gives the claim text, the citations and the verdict it was made
\* from, and the displayed order puts Verified before Partially Verified
\* before Not Verified.
VerdictStringRoundTrip ==
    verifier.pc = "displayed" =>
        /\ \A i \in 1..Len(verifier.shown) :
              LET made == verifier.sorted[i]
                  read == verifier.shown[i]
              IN  /\ ~read.raw
                  /\ read.claim = made.claim
                  /\ read.status = <<made.verification_status>>
                  /\ read.sources_text =
                        IF made.supporting_articles = <<>>
                        THEN <<"No supporting articles">>
                        ELSE join(made.supporting_articles, ", ")
        /\ \A i, j \in 1..Len(verifier.sorted) :
              i < j => VerdictRank(verifier.sorted[i].verification_status)
                         <= VerdictRank(verifier.sorted[j].verification_status)

(***************************************************************************)
(* The per-candidate loops run over the candidates in another order        *)
(***************************************************************************)

\* The orders a list of n candidates may be processed in.
Orders(n) == {p \in [1..n -> 1..n] : \A i, j \in 1..n : p[i] = p[j] => i = j}
Reordered(s, p) == [i \in 1..Len(s) |-> s[p[i]]]

\* The response of a candidate is fixed with the candidate.
FixedRelevanceOutcomes ==
    {CallFailed, CallOk(<<"SCORE:", " ", "0.4">>), CallOk(<<"w", "\n", "SCORE:", " ", "0.7">>)}
FixedVerifierOutcomes ==
    {CallFailed, CallOk(<<"w">>),
     CallOk(Section(1, "DIRECTLY SUPPORTED") \o <<"---">> \o Section(2, "NOT SUPPORTED")),
     CallOk(Section(1, "CONTRADICTED") \o <<"---">> \o Section(2, "INDIRECTLY SUPPORTED"))}

InitOrder ==
    /\ \/ /\ relevance \in
                {[pc |-> "fixed", results_data |-> ResultsData(MaxCandidates),
                  outcomes |-> o, threshold |-> t, order |-> p,
                  in_order |-> relevance_start(<<"a">>, <<>>, t),
                  reordered |-> relevance_start(<<"a">>, <<>>, t)] :
                    o \in [1..MaxCandidates -> FixedRelevanceOutcomes],
                    t \in Thresholds, p \in Orders(MaxCandidates)}
          /\ verifier = Idle
       \/ /\ verifier \in
                {[pc |-> "fixed", claims |-> <<ClaimX, ClaimY>>,
                  articles |-> ResultsData(MaxArticles),
                  outcomes |-> o, order |-> p,
                  in_order |-> verifier_start(<<>>, <<>>),
                  reordered |-> verifier_start(<<>>, <<>>)] :
                    o \in [1..MaxArticles -> FixedVerifierOutcomes],
                    p \in Orders(MaxArticles)}
          /\ relevance = Idle
    /\ refiner = Idle /\ entity = Idle /\ search = Idle
    /\ style = Idle /\ orch = Idle

\* filter_by_relevance on the candidates as listed and as reordered.
FilterInBothOrders ==
    /\ relevance.pc = "fixed"
    /\ relevance' =
          [relevance EXCEPT
              !.pc = "filtered",
              !.in_order =
                  filter_by_relevance(<<"a">>, relevance.results_data,
                                      relevance.threshold, relevance.outcomes),
              !.reordered =
                  filter_by_relevance(<<"a">>,
                                      Reordered(relevance.results_data, relevance.order),
                                      relevance.threshold,
                                      Reordered(relevance.outcomes, relevance.order))]
    /\ UNCHANGED <<refiner, entity, search, style, verifier, orch>>

\* verify_claims_in_articles on the articles as listed and as reordered.
VerifyInBothOrders ==
    /\ verifier.pc = "fixed"
    /\ verifier' =
          [verifier EXCEPT
              !.pc = "verified",
              !.in_order =
                  verify_claims_in_articles(verifier.claims, verifier.articles,
                                            verifier.outcomes),
              !.reordered =
                  verify_claims_in_articles(verifier.claims,
                                            Reordered(verifier.articles, verifier.order),
                                            Reordered(verifier.outcomes, verifier.order))]
    /\ UNCHANGED <<refiner, entity, search, relevance, style, orch>>

NextOrder ==
    \/ FilterInBothOrders
    \/ VerifyInBothOrders

SpecOrder == InitOrder /\ [][NextOrder]_vars

Range(s) == {s[i] : i \in 1..Len(s)}

\* C26: with the response of every candidate fixed, any order of
\* processing gives the same set of retained candidates, the same analysis
\* for every candidate, and for every claim the same verdict and the same
\* set of citations.
OrderIndependent ==
    /\ relevance.pc = "filtered" =>
          /\ Range(relevance.reordered.filtered_results)
                = Range(relevance.in_order.filtered_results)
          /\ Len(relevance.reordered.filtered_results)
                = Len(relevance.in_order.filtered_results)
          /\ DOMAIN relevance.reordered.relevance_analysis
                = DOMAIN relevance.in_order.relevance_analysis
          /\ \A c \in Range(relevance.results_data) :
                relevance.reordered.relevance_analysis[c.ID]
                   = relevance.in_order.relevance_analysis[c.ID]
    /\ verifier.pc = "verified" =>
          /\ Len(verifier.reordered.final_results) = Len(verifier.in_order.final_results)
          /\ \A k \in 1..Len(verifier.in_order.final_results) :
                LET a == verifier.in_order.final_results[k]
                    b == verifier.reordered.final_results[k]
                IN  /\ a.claim = b.claim
                    /\ a.verification_status = b.verification_status
                    /\ Range(a.supporting_articles) = Range(b.supporting_articles)

\* The two candidates were processed in the reverse order: the first was
\* dropped and the second kept, each with its own analysis, either way.
OrderIndependentWitness ==
    /\ relevance.pc = "filtered"
    /\ relevance.order = <<2, 1>>
    /\ relevance.threshold = 7
    /\ relevance.in_order.filtered_results = <<Candidate(2)>>
    /\ relevance.reordered.filtered_results = <<Candidate(2)>>
    /\ relevance.reordered.relevance_analysis[1].score = FloatScore(4)

(***************************************************************************)
(* Entity flattening: EntityExtractionAgent.process_query and main()       *)
(***************************************************************************)

\* all_entities.extend(entity_list): the strings of a list, the characters
\* of a str; None is not iterable.
extended_by(entity_list) ==
    CASE entity_list.type = "array" ->
            Return([i \in 1..Len(entity_list.items) |-> entity_list.items[i].str])
      [] entity_list.type = "string" -> Return(CharsOf[entity_list.str])
      [] OTHER -> Raise

RECURSIVE extend_all(_, _)
extend_all(values, all_entities) ==
    IF values = <<>> THEN Return(all_entities)
    ELSE LET more == extended_by(Head(values))
         IN  IF more.raised THEN Raise
             ELSE extend_all(Tail(values), all_entities \o more.value)

\* process_query has no try block: entities.items() raises for a value
\* that is no dict, extend raises for a value that is not iterable.
process_query(query, outcome) ==
    LET entities == extract_entities(query, outcome).value
    IN  IF entities.type # "object" THEN Raise
        ELSE LET all_entities == extend_all(entities.items, <<>>)
             IN  IF all_entities.raised THEN Raise
                 ELSE Return([entities |-> entities,
                              all_entities |-> all_entities.value])

\* Lines 457-461 of main(): the lower-cased strings of the non-empty values.
RECURSIVE lowered_entities(_)
lowered_entities(values) ==
    IF values = <<>> THEN <<>>
    ELSE LET more == extended_by(Head(values)).value
         IN  [i \in 1..Len(more) |-> LowerOf[more[i]]]
             \o lowered_entities(Tail(values))

\* list(set(xs)): the distinct elements of xs, in an order the set decides.
ListsOfSet(S) ==
    {l \in [1..Cardinality(S) -> S] : {l[i] : i \in 1..Cardinality(S)} = S}

\* get_all_entities_as_list of entity_extraction.py: the lists it may return.
get_all_entities_as_list(entities_dict) ==
    LET all_entities == lowered_entities(entities_dict.items)
    IN  ListsOfSet({all_entities[i] : i \in 1..Len(all_entities)})

\* The EntitySets of the completions the model knows.
EntitySets == {v \in EntityJsonValues : IsEntitySet(v)}

InitFlatten ==
    /\ entity \in {[pc |-> "entities", entities |-> v, all_entities |-> <<>>] :
                      v \in EntitySets}
    /\ refiner = Idle /\ search = Idle /\ relevance = Idle
    /\ style = Idle /\ verifier = Idle /\ orch = Idle

\* Lines 457-464 of main(): the list put in the keywords clause of the
\* search filter.
BuildKeywordsFilter ==
    /\ entity.pc = "entities"
    /\ entity' = [entity EXCEPT
                     !.pc = "filter",
                     !.all_entities = lowered_entities(entity.entities.items)]
    /\ UNCHANGED <<refiner, search, relevance, style, verifier, orch>>

\* The flat list the indexing side stores with an article.
GetAllEntitiesAsList ==
    /\ entity.pc = "entities"
    /\ \E l \in get_all_entities_as_list(entity.entities) :
          entity' = [entity EXCEPT !.pc = "stored", !.all_entities = l]
    /\ UNCHANGED <<refiner, search, relevance, style, verifier, orch>>

NextFlatten ==
    \/ BuildKeywordsFilter
    \/ GetAllEntitiesAsList

SpecFlatten == InitFlatten /\ [][NextFlatten]_vars

\* C23: the flat list made of an EntitySet holds the lower-case form of
\* every surface string of the set and holds no string twice, also when an
\* entity appears under two types or in two casings.
FlatListFoldedAndDistinct ==
    entity.pc \in {"filter", "stored"} =>
        /\ \A i \in 1..Len(entity.entities.items) :
              \A n \in 1..Len(entity.entities.items[i].items) :
                 InSeq(LowerOf[entity.entities.items[i].items[n].str],
                       entity.all_entities)
        /\ \A a, b \in 1..Len(entity.all_entities) :
              entity.all_entities[a] = entity.all_entities[b] => a = b

(***************************************************************************)
(* Summarizer: summarize_with_openai; process_results                      *)
(***************************************************************************)

\* The candidates made of the matches, with the metadata the index stores.
process_results(matches) ==
    [i \in 1..Len(matches) |->
        [ID |-> matches[i].id, Title |-> "T", Content |-> "C", Date |-> "D",
         Source |-> "S", URL |-> "u" \o ToString(matches[i].id),
         Score |-> matches[i].score]]

\* The request sent: the query and the articles; output_style is a
\* parameter the body never reads.
summarize_request(results_data, query, output_style) ==
    [query |-> query,
     articles |-> [i \in 1..Len(results_data) |-> results_data[i].ID]]

\* A summarizer that returns nothing when its call fails.
summarize_with_openai_silent(results_data, query, output_style, outcome) ==
    IF results_data = <<>> THEN <<"No results to summarize.">>
    ELSE IF ~outcome.ok THEN <<>>
    ELSE outcome.content

summarize_with_openai(results_data, query, output_style, outcome) ==
    IF results_data = <<>> THEN <<"No results to summarize.">>
    ELSE IF ~outcome.ok THEN <<"Error generating summary: ", "exception">>
    ELSE outcome.content

\* The remote calls one invocation issues: none for an empty list (lines
\* 211-212), else the one of line 231.
summarize_calls(results_data, query, output_style) ==
    IF results_data = <<>> THEN <<>>
    ELSE <<summarize_request(results_data, query, output_style)>>

SummaryQueries == {<<"a">>, <<"a", "a">>}
SummaryStyles == {""} \cup StyleTags
SummaryOutcomes == {CallFailed, CallOk(<<"summary">>), CallOk(<<>>)}

InitSummary ==
    /\ orch \in {[pc |-> "summarize", results_data |-> ResultsData(n),
                   query |-> q, output_style |-> os, outcome |-> o,
                   summary |-> <<>>, requests |-> <<>>] :
                     n \in 0..MaxCandidates, q \in SummaryQueries,
                     os \in SummaryStyles, o \in SummaryOutcomes}
    /\ refiner = Idle /\ entity = Idle /\ search = Idle
    /\ relevance = Idle /\ style = Idle /\ verifier = Idle

\* One invocation of summarize_with_openai.
Summarize ==
    /\ orch.pc = "summarize"
    /\ orch' = [orch EXCEPT
                   !.pc = "summarized",
                   !.requests = summarize_calls(orch.results_data, orch.query,
                                                orch.output_style),
                   !.summary = summarize_with_openai(orch.results_data, orch.query,
                                                     orch.output_style, orch.outcome)]
    /\ UNCHANGED <<refiner, entity, search, relevance, style, verifier>>

NextSummary == Summarize

SpecSummary == InitSummary /\ [][NextSummary]_vars

\* C21: for a non-empty candidate list whose summarization call fails the
\* function returns the string "Error generating summary: ..." after one
\* call; for an empty list it returns "No results to summarize." and no
\* call is issued.
SummarizerFailureReturnsString ==
    orch.pc = "summarized" =>
        /\ (orch.results_data # <<>> /\ ~orch.outcome.ok) =>
              /\ orch.summary = <<"Error generating summary: ", "exception">>
              /\ Len(orch.requests) = 1
        /\ orch.results_data = <<>> =>
              /\ orch.summary = <<"No results to summarize.">>
              /\ orch.requests = <<>>

\* C27: the style tag handed to summarize_with_openai determines the
\* request: with the same candidates and the same query, a different tag
\* gives a different request to the language model.
StyleDeterminesRequest ==
    (orch.pc = "summarized" /\ orch.results_data # <<>>) =>
        \A other \in SummaryStyles \ {orch.output_style} :
            summarize_calls(orch.results_data, orch.query, other) # orch.requests

\* Two candidates, the call failed, the error string came back.
SummarizerFailureWitness ==
    /\ orch.pc = "summarized"
    /\ Len(orch.results_data) = 2
    /\ ~orch.outcome.ok
    /\ orch.summary[1] = "Error generating summary: "

(***************************************************************************)
(* The orchestrator: main() of step-03-view-agent.py, one request          *)
(***************************************************************************)

\* What the user may set.
OrchQueries == {<<>>, <<"a">>}
OrchTopK == {1, 2}
ForcedStyles == {"", "timeline"}

\* Outcomes of the remote calls of one request.
OrchEntityOutcomes ==
    {CallFailed, CallOk(<<"{">>),
     CallOk(json_dumps(JObj(<<"PERSON">>, <<JArr(<<JStr("Kandy")>>)>>))),
     CallOk(json_dumps(JObj(<<"PERSON">>, <<JNull>>)))}
OrchRefinerOutcomes == {CallFailed, CallOk(<<"a", "a">>)}
OrchIndexOutcomes ==
    {IndexFailed} \cup {IndexOk(p) : p \in SeqsUpTo({1, 2}, 2)}
OrchRelevanceOutcomes ==
    {CallFailed, CallOk(<<"SCORE:", " ", "0.4">>), CallOk(<<"SCORE:", " ", "0.7">>)}
OrchStyleOutcomes == {CallFailed, CallOk(<<"timeline">>)}
OrchSummaryOutcomes == {CallFailed, CallOk(<<"summary">>)}
OrchClaimOutcomes ==
    {CallFailed, CallOk(<<"w">>), CallOk(<<"CLAIM:", " ", "X">>)}
OrchVerifierOutcomes ==
    {CallFailed, CallOk(<<"w">>), CallOk(Section(1, "DIRECTLY SUPPORTED"))}

\* The state of a request when Search is clicked.  calls lists the
\* components invoked, failed the stages whose remote call raised or whose
\* response did not parse, ui the messages shown, status how main() ended:
\* "completed" when it returned, "stopped" after st.error and st.stop(),
\* "crashed" when an exception left it.  claims is what the claim
\* extraction returned, verify_prompts the verification calls issued.
orch_start(query, top_k, flags, forced_style) ==
    [pc |-> "clicked", status |-> "running",
     query |-> query, top_k |-> top_k, relevance_threshold |-> 5,
     use_query_agent |-> flags[1], use_style_agent |-> flags[2],
     use_entity_agent |-> flags[3], use_relevance_agent |-> flags[4],
     use_fact_agent |-> flags[5],
     output_style |-> forced_style,
     keywords |-> <<>>, search_query |-> <<>>,
     failed |-> {},
     results_data |-> <<>>, summary |-> <<>>, summary_request |-> <<>>,
     relevance_query |-> <<>>, relevance_prompts |-> <<>>,
     claims |-> <<>>, verify_prompts |-> <<>>,
     verification_result |-> <<>>,
     calls |-> <<>>, ui |-> <<>>]

InitOrch ==
    /\ orch \in {orch_start(q, k, f, fs) :
                    q \in OrchQueries, k \in OrchTopK,
                    f \in [1..5 -> BOOLEAN], fs \in ForcedStyles}
    /\ orch.use_style_agent => orch.output_style = ""
    /\ refiner = Idle /\ entity = Idle /\ search = Idle
    /\ relevance = Idle /\ style = Idle /\ verifier = Idle

Finished(st, status, message) ==
    [st EXCEPT !.pc = "done", !.status = status, !.ui = Append(@, message)]

\* Lines 425-427: an empty query is answered with a warning.
Clicked ==
    /\ orch.pc = "clicked"
    /\ orch' = IF orch.query = <<>>
               THEN Finished(orch, "completed", "warning: Please enter a search query")
               ELSE [orch EXCEPT !.pc = "entity"]
    /\ UNCHANGED <<refiner, entity, search, relevance, style, verifier>>

\* Lines 437-464, outside the try block of main().
entity_stage(st, outcome) ==
    IF ~st.use_entity_agent THEN [st EXCEPT !.pc = "refine"]
    ELSE LET called ==
                 [st EXCEPT
                     !.calls = Append(@, "entity"),
                     !.failed =
                         IF ~outcome.ok \/ json_loads(strip(outcome.content)).raised
                         THEN @ \cup {"entity"} ELSE @]
             processed == process_query(st.query, outcome)
         IN  IF processed.raised
             THEN [called EXCEPT !.pc = "done", !.status = "crashed"]
             ELSE [called EXCEPT
                      !.pc = "refine",
                      !.keywords = lowered_entities(processed.value.entities.items)]

EntityStage ==
    /\ orch.pc = "entity"
    /\ \E outcome \in OrchEntityOutcomes : orch' = entity_stage(orch, outcome)
    /\ UNCHANGED <<refiner, entity, search, relevance, style, verifier>>

\* A refinement left for later: the search starts with the raw query.
refine_stage_deferred(st, outcome) ==
    [st EXCEPT !.pc = "search", !.search_query = st.query]

\* Lines 466-484.
refine_stage(st, outcome) ==
    IF ~st.use_query_agent
    THEN [st EXCEPT !.pc = "search", !.search_query = st.query]
    ELSE [st EXCEPT
             !.pc = "search",
             !.calls = Append(@, "refiner"),
             !.failed = IF outcome.ok THEN @ ELSE @ \cup {"refiner"},
             !.search_query = generate_refined_query(st.query, outcome).value]

RefineStage ==
    /\ orch.pc = "refine"
    /\ \E outcome \in OrchRefinerOutcomes : orch' = refine_stage(orch, outcome)
    /\ UNCHANGED <<refiner, entity, search, relevance, style, verifier>>

\* Lines 486-493 and the except of lines 560-562.
search_stage(st, embed_ok, index_outcome) ==
    LET called == [st EXCEPT
                      !.calls = Append(@, "search"),
                      !.failed =
                          IF ~embed_ok THEN @ \cup {"embedding"}
                          ELSE IF ~index_outcome.ok THEN @ \cup {"index"}
                          ELSE @]
        results == search_pinecone(st.top_k, embed_ok, index_outcome)
    IN  IF results.raised
        THEN Finished(called, "stopped", "error: Error on main")
        ELSE [called EXCEPT
                 !.pc = "relevance",
                 !.results_data = Take(process_results(results.value), st.top_k)]

SearchStage ==
    /\ orch.pc = "search"
    /\ \E embed_ok \in BOOLEAN, index_outcome \in OrchIndexOutcomes :
          orch' = search_stage(orch, embed_ok, index_outcome)
    /\ UNCHANGED <<refiner, entity, search, relevance, style, verifier>>

\* A filter that is handed the query the search ran with.
relevance_argument_refined(st) == st.search_query

\* Line 503: the first argument of filter_by_relevance.
relevance_argument(st) == st.query

\* Lines 495-517, and the else of lines 558-559 when nothing is left.
relevance_stage(st, outcomes) ==
    LET run == filter_by_relevance(relevance_argument(st), st.results_data,
                                   st.relevance_threshold, outcomes)
        filtered ==
            IF st.use_relevance_agent /\ st.results_data # <<>>
            THEN [st EXCEPT
                     !.calls = Append(@, "relevance"),
                     !.failed =
                         IF \E k \in 1..Len(outcomes) : ~outcomes[k].ok
                         THEN @ \cup {"relevance"} ELSE @,
                     !.relevance_query = run.query,
                     !.relevance_prompts = run.prompts,
                     !.results_data = run.filtered_results]
            ELSE st
    IN  IF filtered.results_data # <<>>
        THEN [filtered EXCEPT !.pc = "style", !.ui = Append(@, "success: Found results")]
        ELSE Finished(filtered, "completed",
                      "warning: No results found that match your query criteria")

RelevanceStage ==
    /\ orch.pc = "relevance"
    /\ \E outcomes \in [1..Len(orch.results_data) -> OrchRelevanceOutcomes] :
          orch' = relevance_stage(orch, outcomes)
    /\ UNCHANGED <<refiner, entity, search, relevance, style, verifier>>

\* Lines 526-532.
style_stage(st, outcome) ==
    IF ~st.use_style_agent THEN [st EXCEPT !.pc = "summary"]
    ELSE [st EXCEPT
             !.pc = "summary",
             !.calls = Append(@, "style"),
             !.failed = IF outcome.ok THEN @ ELSE @ \cup {"style"},
             !.output_style =
                 determine_output_style(st.query, st.results_data, outcome).value]

StyleStage ==
    /\ orch.pc = "style"
    /\ \E outcome \in OrchStyleOutcomes : orch' = style_stage(orch, outcome)
    /\ UNCHANGED <<refiner, entity, search, relevance, style, verifier>>

\* Lines 534-545.
summary_stage(st, outcome) ==
    [st EXCEPT
        !.pc = "fact",
        !.calls = Append(@, "summarizer"),
        !.failed = IF outcome.ok THEN @ ELSE @ \cup {"summarizer"},
        !.summary_request =
            summarize_request(st.results_data, st.query, st.output_style),
        !.summary =
            summarize_with_openai(st.results_data, st.query, st.output_style, outcome),
        !.ui = Append(@, "summary")]

SummaryStage ==
    /\ orch.pc = "summary"
    /\ \E outcome \in OrchSummaryOutcomes : orch' = summary_stage(orch, outcome)
    /\ UNCHANGED <<refiner, entity, search, relevance, style, verifier>>

\* Lines 547-557.
fact_stage(st, claim_outcome, outcomes) ==
    IF ~(st.use_fact_agent /\ st.results_data # <<>>)
    THEN Finished(st, "completed", "results")
    ELSE LET claims == extract_claims_from_summary(st.summary, claim_outcome)
             verified == verify_claims_in_articles(claims, st.results_data, outcomes)
         IN  Finished([st EXCEPT
                          !.calls = @ \o <<"fact_extract", "fact_verify">>,
                          !.failed =
                              @ \cup (IF claim_outcome.ok THEN {} ELSE {"fact_extract"})
                                \cup (IF \E k \in 1..Len(outcomes) : ~outcomes[k].ok
                                      THEN {"fact_verify"} ELSE {}),
                          !.claims = claims,
                          !.verify_prompts = verified.prompts,
                          !.verification_result =
                              [k \in 1..Len(verified.final_results) |->
                                  verified.final_results[k].result_str]],
                      "completed", "results")

FactStage ==
    /\ orch.pc = "fact"
    /\ \E claim_outcome \in OrchClaimOutcomes,
          outcomes \in [1..Len(orch.results_data) -> OrchVerifierOutcomes] :
          orch' = fact_stage(orch, claim_outcome, outcomes)
    /\ UNCHANGED <<refiner, entity, search, relevance, style, verifier>>

Init == InitOrch

Next ==
    \/ Clicked
    \/ EntityStage
    \/ RefineStage
    \/ SearchStage
    \/ RelevanceStage
    \/ StyleStage
    \/ SummaryStage
    \/ FactStage

Spec == Init /\ [][Next]_vars

\* The components that run after the search.
LaterStages == {"relevance", "style", "summarizer", "fact_extract", "fact_verify"}

\* C7: when the index query fails the search returns no match and does not
\* raise; the request ends normally with the "no results" warning and none
\* of the Relevance Filter, Style Selector, Summarizer and Fact Verifier is
\* invoked.
IndexFailureMeansNoResults ==
    (orch.pc # "idle" /\ "index" \in orch.failed) =>
        /\ orch.results_data = <<>>
        /\ orch.status \in {"running", "completed"}
        /\ orch.pc \in {"relevance", "done"}
        /\ \A k \in 1..Len(orch.calls) : orch.calls[k] \notin LaterStages
        /\ orch.pc = "done" =>
              /\ orch.status = "completed"
              /\ orch.ui = <<"warning: No results found that match your query criteria">>

\* A request whose index query failed has ended with the warning.
IndexFailureWitness ==
    /\ orch.pc = "done"
    /\ "index" \in orch.failed
    /\ orch.status = "completed"
    /\ orch.calls[Len(orch.calls)] = "search"

\* C10: whatever stage fails (the query embedding, the index query, a
\* language-model call or the parsing of its response), no exception leaves
\* the component and the request is carried to its end, not terminated.
StageFailureNeverTerminates ==
    (orch.pc = "done" /\ orch.failed # {}) => orch.status = "completed"

\* C12: when the claim-extraction call fails, the claim list is empty, no
\* per-document verification call is issued and no verdict is produced.
ExtractionFailureShortCircuits ==
    (orch.pc = "done" /\ "fact_extract" \in orch.failed) =>
        /\ orch.claims = <<>>
        /\ orch.verify_prompts = <<>>
        /\ orch.verification_result = <<>>

\* C18: with the Query Refiner enabled, the query handed to the Relevance
\* Filter and put in the prompt of every candidate is the raw user query,
\* also when the refined query differs from it; the refined query goes to
\* the search only, the summarizer too is given the raw query.
RelevanceJudgesRawQuery ==
    (orch.pc # "idle" /\ orch.use_query_agent) =>
        /\ "relevance" \in {orch.calls[k] : k \in 1..Len(orch.calls)} =>
              /\ orch.relevance_query = orch.query
              /\ orch.relevance_prompts # <<>>
              /\ \A k \in 1..Len(orch.relevance_prompts) :
                    orch.relevance_prompts[k].query = orch.query
        /\ "summarizer" \in {orch.calls[k] : k \in 1..Len(orch.calls)} =>
              orch.summary_request.query = orch.query

\* The refiner rewrote the query, the search ran with the rewrite, and the
\* Relevance Filter judged two candidates against the raw query.
RelevanceJudgesRawQueryWitness ==
    /\ orch.pc = "done"
    /\ orch.use_query_agent
    /\ orch.search_query # orch.query
    /\ Len(orch.relevance_prompts) = 2
    /\ orch.relevance_prompts[2].query = orch.query

\* The stages in the order main() invokes them.
StageOrder ==
    <<"entity", "refiner", "search", "relevance", "style", "summarizer",
      "fact_extract", "fact_verify">>
Rank(stage) == CHOOSE r \in 1..Len(StageOrder) : StageOrder[r] = stage
\* The rank of the stage that main() is about to run.
PcRank ==
    CASE orch.pc = "clicked" -> 1
      [] orch.pc = "entity" -> 1
      [] orch.pc = "refine" -> 2
      [] orch.pc = "search" -> 3
      [] orch.pc = "relevance" -> 4
      [] orch.pc = "style" -> 5
      [] orch.pc = "summary" -> 6
      [] orch.pc = "fact" -> 7
      [] OTHER -> 9
Called(stage) == \E k \in 1..Len(orch.calls) : orch.calls[k] = stage

\* C25: the stages of a request run one at a time and in order: a stage
\* starts only when every stage invoked before it has returned, the Entity
\* Extractor and the Query Refiner (when enabled) have returned before the
\* search starts, and the Relevance Filter, Style Selector, Summarizer and
\* Fact Verifier start only after the stage before them.
StagesInOrder ==
    orch.pc # "idle" =>
        /\ \A i, j \in 1..Len(orch.calls) :
              i < j => Rank(orch.calls[i]) < Rank(orch.calls[j])
        /\ \A k \in 1..Len(orch.calls) : Rank(orch.calls[k]) < PcRank
        /\ Called("search") =>
              /\ orch.use_entity_agent => Called("entity")
              /\ orch.use_query_agent => Called("refiner")
        /\ Called("relevance") => Called("search")
        /\ Called("style") => Called("search")
        /\ Called("summarizer") =>
              /\ Called("search")
              /\ orch.use_relevance_agent => Called("relevance")
              /\ orch.use_style_agent => Called("style")
        /\ Called("fact_extract") => Called("summarizer")
        /\ Called("fact_verify") => Called("fact_extract")

\* A request with every agent enabled ran its eight stages in order.
StagesInOrderWitness ==
    /\ orch.pc = "done"
    /\ orch.calls = StageOrder

\* C30: in a request where the summarizer's call failed and its error
\* string is the summary, the string is not passed to the claim extraction
\* and no claim verdict is displayed.
FactCheckOnlyOnRealSummary ==
    (orch.pc = "done" /\ "summarizer" \in orch.failed) =>
        /\ ~Called("fact_extract")
        /\ ~Called("fact_verify")
        /\ orch.verification_result = <<>>

====
